---- MODULE Spec2Model ----
(***************************************************************************)
(* A model of cps/metadata_provider/douban.py: the Douban metadata         *)
(* provider.  Douban.search resolves a query into candidate ids through    *)
(* one search request and fans _parse_single_book out over a               *)
(* ThreadPoolExecutor(max_workers=5).                                      *)
(*                                                                         *)
(* Texts are tuples of one-character strings, so that the regular          *)
(* expressions, str.strip and float() are computed character by character. *)
(* The module is ASCII only: every CJK character of a label is written as  *)
(* one token naming it ("cong" "shu" for the two characters of the series  *)
(* label), and a token counts as one character.                            *)
(***************************************************************************)
EXTENDS Integers, Sequences, FiniteSets, TLC

(***************************************************************************)
(* Python values                                                           *)
(***************************************************************************)
\* Python's None where a text is expected: a tuple no text can equal,
\* because no text contains its token.
None == <<"<None>">>

Digits == {"0", "1", "2", "3", "4", "5", "6", "7", "8", "9"}

\* the whitespace str.strip() removes, as far as the modelled pages use it
Whitespace == {" ", "\n"}

RECURSIVE LStrip(_)
LStrip(s) ==
    IF s # <<>> /\ Head(s) \in Whitespace THEN LStrip(Tail(s)) ELSE s

RECURSIVE RStrip(_)
RStrip(s) ==
    IF s # <<>> /\ s[Len(s)] \in Whitespace
    THEN RStrip(SubSeq(s, 1, Len(s) - 1))
    ELSE s

\* str.strip()
Strip(s) == RStrip(LStrip(s))

\* whether the literal lit occurs in s at position p
MatchAt(s, lit, p) ==
    /\ p + Len(lit) - 1 <= Len(s)
    /\ SubSeq(s, p, p + Len(lit) - 1) = lit

Min(S) == CHOOSE x \in S : \A y \in S : x <= y

\* A pattern of literal alternatives, "a|b", is the sequence of its
\* alternatives.  The positions at which one of them matches in s:
MatchPositions(pattern, s) ==
    {p \in 1..Len(s) : \E k \in 1..Len(pattern) : MatchAt(s, pattern[k], p)}

\* pattern.search(s) is not None.  Searching None raises TypeError, which
\* the callers decide before they search.
Search(pattern, s) == MatchPositions(pattern, s) # {}

\* pattern.search(s).group(): the leftmost match, and there the first
\* alternative that matches
Group(pattern, s) ==
    LET p == Min(MatchPositions(pattern, s))
        k == Min({j \in 1..Len(pattern) : MatchAt(s, pattern[j], p)})
    IN  pattern[k]

(***************************************************************************)
(* The class attributes of Douban                                          *)
(***************************************************************************)
\* ID_PATTERN = re.compile(r"sid: (?P<id>\d+),")
SID_PREFIX == <<"s", "i", "d", ":", " ">>

\* the end of the longest run of digits of s that starts at q (q - 1 when
\* s[q] is no digit): what the greedy \d+ consumes
RECURSIVE DigitRunEnd(_, _)
DigitRunEnd(s, q) ==
    IF q <= Len(s) /\ s[q] \in Digits THEN DigitRunEnd(s, q + 1) ELSE q - 1

\* ID_PATTERN matches at p: the prefix, one digit or more, then a comma.
\* Giving digits back cannot help \d+ reach a comma, so only the longest
\* run is tried.
IdMatchAt(s, p) ==
    /\ MatchAt(s, SID_PREFIX, p)
    /\ LET q == p + Len(SID_PREFIX)
           e == DigitRunEnd(s, q)
       IN  e >= q /\ e + 1 <= Len(s) /\ s[e + 1] = ","

\* ID_PATTERN.search(item) is not None
ID_PATTERN_search(item) == \E p \in 1..Len(item) : IdMatchAt(item, p)

\* ID_PATTERN.search(item).group("id"), of the leftmost match
ID_PATTERN_group(item) ==
    LET p == Min({x \in 1..Len(item) : IdMatchAt(item, x)})
        q == p + Len(SID_PREFIX)
    IN  SubSeq(item, q, DigitRunEnd(item, q))

\* The label patterns.  The labels are CJK text: each character is written
\* as one token, zuo zhe = U+4F5C U+8005, yi zhe = U+8BD1 U+8005,
\* chu ban she = U+51FA U+7248 U+793E, fu biao ti = U+526F U+6807 U+9898,
\* chu ban nian = U+51FA U+7248 U+5E74, cong shu = U+4E1B U+4E66,
\* tong yi1 shu hao = U+7EDF U+4E00 U+4E66 U+53F7.
AUTHORS_PATTERN == << <<"zuo", "zhe">>, <<"yi", "zhe">> >>

PUBLISHER_PATTERN == << <<"chu", "ban", "she">> >>

SUBTITLE_PATTERN == << <<"fu", "biao", "ti">> >>

PUBLISHED_DATE_PATTERN == << <<"chu", "ban", "nian">> >>

SERIES_PATTERN == << <<"cong", "shu">> >>

IDENTIFIERS_PATTERN ==
    << <<"I", "S", "B", "N">>, <<"tong", "yi1", "shu", "hao">> >>

\* max_workers of the ThreadPoolExecutor
max_workers == 5

\* results["items"][:10]
ITEMS_LIMIT == 10

(***************************************************************************)
(* float() and the rating                                                  *)
(***************************************************************************)
DigitVal ==
    [c \in Digits |->
        CASE c = "0" -> 0 [] c = "1" -> 1 [] c = "2" -> 2 [] c = "3" -> 3
          [] c = "4" -> 4 [] c = "5" -> 5 [] c = "6" -> 6 [] c = "7" -> 7
          [] c = "8" -> 8 [] c = "9" -> 9]

AllDigits(s) == \A i \in 1..Len(s) : s[i] \in Digits

\* the number a string of digits writes ("" writes 0)
RECURSIVE DigitsValue(_)
DigitsValue(s) ==
    IF s = <<>> THEN 0
    ELSE 10 * DigitsValue(SubSeq(s, 1, Len(s) - 1)) + DigitVal[s[Len(s)]]

RECURSIVE Pow10(_)
Pow10(n) == IF n = 0 THEN 1 ELSE 10 * Pow10(n - 1)

\* A float is the rational num/den, or nan, or inf.
ValueError == [ok |-> FALSE, kind |-> "ValueError", num |-> 0, den |-> 1]

Finite(n, d) == [ok |-> TRUE, kind |-> "finite", num |-> n, den |-> d]

Special(k) == [ok |-> TRUE, kind |-> k, num |-> 0, den |-> 1]

\* float() of an unsigned body: "nan", "inf", "infinity", or digits with at
\* most one point and at least one digit.  (Exponents, underscores and
\* upper case are not written by any modelled page.)
FloatUnsigned(b) ==
    IF b = <<"n", "a", "n">> THEN Special("nan")
    ELSE IF b \in {<<"i", "n", "f">>,
                   <<"i", "n", "f", "i", "n", "i", "t", "y">>}
    THEN Special("inf")
    ELSE LET dots == {i \in 1..Len(b) : b[i] = "."}
             dot  == IF dots = {} THEN Len(b) + 1 ELSE Min(dots)
             int  == SubSeq(b, 1, dot - 1)
             frac == SubSeq(b, dot + 1, Len(b))
         IN  IF /\ AllDigits(int)
                /\ AllDigits(frac)
                /\ Len(int) + Len(frac) >= 1
             THEN Finite(DigitsValue(int \o frac), Pow10(Len(frac)))
             ELSE ValueError

\* float(text): surrounding whitespace and one sign are accepted.  The
\* rational stands for the double nearest to it; for the short decimals
\* modelled here the two have the same floor of their half.
Float(text) ==
    LET t == Strip(text)
    IN  IF t # <<>> /\ Head(t) \in {"+", "-"}
        THEN LET f == FloatUnsigned(Tail(t))
             IN  IF f.ok /\ Head(t) = "-" THEN [f EXCEPT !.num = -f.num]
                 ELSE f
        ELSE FloatUnsigned(t)

\* RatingStars with the half rounded down: int(rating_num // 2)
RatingStars_Floor(rating_num) ==
    IF rating_num.kind # "finite"
    THEN [ok |-> FALSE, exc |-> "ValueError", stars |-> 0]
    ELSE [ok |-> TRUE, exc |-> "",
          stars |-> rating_num.num \div (2 * rating_num.den)]

\* int(-1 * rating_num // 2 * -1) if rating_num else 0, for a float or the
\* integer 0 of the except branch.  nan and inf are truthy, floor division
\* turns both into nan, and int(nan) raises ValueError.
RatingStars(rating_num) ==
    IF rating_num.kind # "finite"
    THEN [ok |-> FALSE, exc |-> "ValueError", stars |-> 0]
    ELSE IF rating_num.num = 0
    THEN [ok |-> TRUE, exc |-> "", stars |-> 0]
    ELSE [ok |-> TRUE, exc |-> "",
          stars |-> ((-1 * rating_num.num) \div (2 * rating_num.den)) * (-1)]

\* try: rating_num = float(xpath(RATING_XPATH)[0].text.strip())
\* except ValueError: rating_num = 0
\* match.rating = ...
\* rating is what the xpath matched: the texts of the rating elements.
ParseRating(rating) ==
    IF rating = <<>> THEN [ok |-> FALSE, exc |-> "IndexError", stars |-> 0]
    ELSE IF rating[1] = None
    THEN [ok |-> FALSE, exc |-> "AttributeError", stars |-> 0]
    ELSE LET f == Float(Strip(rating[1]))
         IN  RatingStars(IF f.ok THEN f ELSE Finite(0, 1))

(***************************************************************************)
(* _parse_single_book                                                      *)
(*                                                                         *)
(* A detail page is what the detail endpoint answers for one id:           *)
(*   fetch        "ok", "error" (session.get raises) or "status"           *)
(*                (raise_for_status raises)                                *)
(*   title        the texts of the elements TITTLE_XPATH matches           *)
(*   cover        the href of each element COVER_XPATH matches (None: the  *)
(*                anchor has no href)                                      *)
(*   rating       the texts of the elements RATING_XPATH matches           *)
(*   tags         the texts of the elements TAGS_XPATH matches             *)
(*   description  the elements DESCRIPTION_XPATH matches, each the         *)
(*                sequence of its lines                                    *)
(*   info         the elements INFO_XPATH matches, each with its text, its *)
(*                tail and its following siblings (tag and text)           *)
(* A text that lxml reports as None is None.                               *)
(***************************************************************************)
\* html2text(html): the lines of the fragment, one per line, and the blank
\* line HTML2Text ends a block with
RECURSIVE html2text(_)
html2text(html) ==
    IF html = <<>> THEN <<"\n">>
    ELSE Head(html) \o <<"\n">> \o html2text(Tail(html))

\* url = f"https://book.douban.com/subject/{id}/"
DetailUrl(id) == <<"https://book.douban.com/subject/">> \o id \o <<"/">>

\* str(x) inside an f-string
Str(x) == IF x = None THEN <<"N", "o", "n", "e">> ELSE x

\* match = MetaRecord(id=id, title="", authors=[], url=url, source=...):
\* the fields the call does not give keep MetaRecord's defaults.  A dict is
\* the sequence of its <<key, value>> pairs in insertion order.
MetaRecord(id, url) ==
    [id |-> id, title |-> <<>>, authors |-> <<>>, url |-> url,
     source |-> "douban", cover |-> None, rating |-> 0, tags |-> <<>>,
     description |-> <<>>, publisher |-> None, publishedDate |-> None,
     series |-> None, identifiers |-> <<>>]

\* d[key] = value
DictSet(d, key, value) ==
    IF \E i \in 1..Len(d) : d[i][1] = key
    THEN [i \in 1..Len(d) |-> IF d[i][1] = key THEN <<key, value>> ELSE d[i]]
    ELSE Append(d, <<key, value>>)

\* What a call of _parse_single_book ends with: a record, None, or an
\* exception that leaves the function.
Returned(match) == [kind |-> "record", match |-> match, exc |-> ""]

ReturnedNone == [kind |-> "None", match |-> MetaRecord(<<>>, <<>>), exc |-> ""]

Raised(e) == [kind |-> "raise", match |-> MetaRecord(<<>>, <<>>), exc |-> e]

\* while next is not None and next.tag != "br":
\*     match.authors.append(next.text); next = next.getnext()
RECURSIVE AuthorsWalk(_, _)
AuthorsWalk(authors, siblings) ==
    IF siblings = <<>> \/ Head(siblings).tag = "br" THEN authors
    ELSE AuthorsWalk(Append(authors, Head(siblings).text), Tail(siblings))

\* The body of "for element in info" for one element: the record after it,
\* or the exception it raises.
InfoElement(match, element) ==
    LET text == element.text
    IN  IF text = None THEN Raised("TypeError")
        ELSE IF Search(AUTHORS_PATTERN, text)
        THEN Returned([match EXCEPT
                 !.authors = AuthorsWalk(match.authors, element.siblings)])
        ELSE IF Search(PUBLISHER_PATTERN, text)
        THEN IF element.tail = None THEN Raised("AttributeError")
             ELSE Returned([match EXCEPT !.publisher = Strip(element.tail)])
        ELSE IF Search(SUBTITLE_PATTERN, text)
        THEN IF element.tail = None THEN Raised("AttributeError")
             ELSE Returned([match EXCEPT
                      !.title = Str(match.title) \o <<":">> \o Strip(element.tail)])
        ELSE IF Search(PUBLISHED_DATE_PATTERN, text)
        THEN IF element.tail = None THEN Raised("AttributeError")
             ELSE Returned([match EXCEPT !.publishedDate = Strip(element.tail)])
        ELSE IF Search(SUBTITLE_PATTERN, text)
        THEN IF element.siblings = <<>> THEN Raised("AttributeError")
             ELSE Returned([match EXCEPT !.series = Head(element.siblings).text])
        ELSE IF Search(IDENTIFIERS_PATTERN, text)
        THEN IF element.tail = None THEN Raised("AttributeError")
             ELSE Returned([match EXCEPT
                      !.identifiers = DictSet(match.identifiers,
                                              Group(IDENTIFIERS_PATTERN, text),
                                              Strip(element.tail))])
        ELSE Returned(match)

\* for element in info: ...
RECURSIVE InfoLoop(_, _)
InfoLoop(match, info) ==
    IF info = <<>> THEN Returned(match)
    ELSE LET r == InfoElement(match, Head(info))
         IN  IF r.kind = "raise" THEN r ELSE InfoLoop(r.match, Tail(info))

\* _parse_single_book(id, generic_cover) on the page the detail endpoint
\* answers for id
ParseSingleBook(id, generic_cover, page) ==
    IF page.fetch # "ok" THEN ReturnedNone
    ELSE IF page.title = <<>> THEN Raised("IndexError")
    ELSE IF page.cover = <<>> THEN Raised("IndexError")
    ELSE IF page.cover[1] = None THEN Raised("KeyError")
    ELSE LET rating == ParseRating(page.rating)
         IN  IF ~rating.ok THEN Raised(rating.exc)
             ELSE LET match ==
                          [MetaRecord(id, DetailUrl(id)) EXCEPT
                              !.title = page.title[1],
                              !.cover = IF page.cover[1] # <<>>
                                        THEN page.cover[1] ELSE generic_cover,
                              !.rating = rating.stars,
                              !.tags = page.tags,
                              !.description =
                                  IF page.description # <<>>
                                  THEN html2text(page.description[Len(page.description)])
                                  ELSE <<>>]
                  IN  InfoLoop(match, page.info)

(***************************************************************************)
(* Douban.search                                                           *)
(*                                                                         *)
(* One call of search.  The environment is fixed when the call starts: the *)
(* provider's flag, what the search endpoint answers and what the detail   *)
(* endpoint answers for each id.  The query only travels to the search     *)
(* endpoint, whose answer is the environment's, so it is not a variable.   *)
(***************************************************************************)
VARIABLES
    active,         \* self.active
    generic_cover,  \* the argument of search
    endpoint,       \* the search endpoint: [outcome, total, items]
    pages,          \* the detail endpoint: id -> detail page
    pc,             \* where the calling thread is
    search_gets,    \* the GETs sent to SEARCH_URL
    book_id_list,   \* the local of search
    fut,            \* the local of search: the futures submitted
    ready,          \* as_completed: the futures found finished at its start
    finished_futures, \* as_completed: the waiter's list, in finishing order
    collected,      \* the list the comprehension for val is building
    exc,            \* the exception that is leaving the with block ("": none)
    val,            \* the local of search
    ret             \* how the call ended

vars == <<active, generic_cover, endpoint, pages, pc, search_gets,
          book_id_list, fut, ready, finished_futures, collected, exc, val,
          ret>>

env == <<active, generic_cover, endpoint, pages>>

\* a local that no assignment has reached
Unbound == [bound |-> FALSE, list |-> <<>>]

Bound(list) == [bound |-> TRUE, list |-> list]

Running == [kind |-> "running", value |-> <<>>, exc |-> ""]

\* return None
RetNone == [kind |-> "None", value |-> <<>>, exc |-> ""]

\* return <a list>
RetValue(list) == [kind |-> "value", value |-> list, exc |-> ""]

\* an exception leaves search
RetRaise(e) == [kind |-> "raise", value |-> <<>>, exc |-> e]

\* return val: reading a local that is not bound raises UnboundLocalError
ReturnVal(v) == IF v.bound THEN RetValue(v.list) ELSE RetRaise("UnboundLocalError")

\* book_id_list = [ID_PATTERN.search(item).group("id")
\*                 for item in results["items"][:10] if ID_PATTERN.search(item)]
RECURSIVE IdsOf(_)
IdsOf(items) ==
    IF items = <<>> THEN <<>>
    ELSE IF ID_PATTERN_search(Head(items))
    THEN <<ID_PATTERN_group(Head(items))>> \o IdsOf(Tail(items))
    ELSE IdsOf(Tail(items))

\* FirstItems without the slice: results["items"]
FirstItems_NoLimit(items) == items

\* results["items"][:10]
FirstItems(items) ==
    SubSeq(items, 1, IF Len(items) < ITEMS_LIMIT THEN Len(items) ELSE ITEMS_LIMIT)

BookIdList(items) == IdsOf(FirstItems(items))

InFlight == {i \in 1..Len(fut) : fut[i].state = "running"}

Finished == {i \in 1..Len(fut) : fut[i].state = "finished"}

Pending == {i \in 1..Len(fut) : fut[i].state = "pending"}

\* PoolHasRoom of an executor that starts a thread for every work item
PoolHasRoom_Unbounded == TRUE

\* ThreadPoolExecutor(max_workers=5): a work item leaves the queue only for
\* a worker thread that runs nothing, and there are at most max_workers
PoolHasRoom == Cardinality(InFlight) < max_workers

\* if not self.active: (falls through to) return val
SearchInactive ==
    /\ pc = "call"
    /\ ~active
    /\ pc' = "done"
    /\ ret' = ReturnVal(val)
    /\ UNCHANGED <<env, search_gets, book_id_list, fut, ready,
                   finished_futures, collected, exc, val>>

\* SearchRequestFails with an except branch that only logs and falls
\* through to "return val"
SearchRequestFails_FallsThrough ==
    /\ pc = "call"
    /\ active
    /\ endpoint.outcome # "ok"
    /\ search_gets' = search_gets + 1
    /\ pc' = "done"
    /\ ret' = ReturnVal(val)
    /\ UNCHANGED <<env, book_id_list, fut, ready, finished_futures,
                   collected, exc, val>>

\* try: r = session.get(SEARCH_URL, ...); r.raise_for_status()
\* except Exception: return None
SearchRequestFails ==
    /\ pc = "call"
    /\ active
    /\ endpoint.outcome # "ok"
    /\ search_gets' = search_gets + 1
    /\ pc' = "done"
    /\ ret' = RetNone
    /\ UNCHANGED <<env, book_id_list, fut, ready, finished_futures,
                   collected, exc, val>>

\* results = r.json(); if results["total"] == 0: return val
SearchNoResults ==
    /\ pc = "call"
    /\ active
    /\ endpoint.outcome = "ok"
    /\ endpoint.total = 0
    /\ search_gets' = search_gets + 1
    /\ pc' = "done"
    /\ ret' = ReturnVal(val)
    /\ UNCHANGED <<env, book_id_list, fut, ready, finished_futures,
                   collected, exc, val>>

\* results["total"] != 0: book_id_list = [...]; with ThreadPoolExecutor(...)
SearchResults ==
    /\ pc = "call"
    /\ active
    /\ endpoint.outcome = "ok"
    /\ endpoint.total # 0
    /\ search_gets' = search_gets + 1
    /\ book_id_list' = BookIdList(endpoint.items)
    /\ pc' = "submit"
    /\ UNCHANGED <<env, fut, ready, finished_futures, collected, exc, val,
                   ret>>

\* fut = [executor.submit(self._parse_single_book, book_id, generic_cover)
\*        for book_id in book_id_list]: one submit
Submit ==
    /\ pc = "submit"
    /\ Len(fut) < Len(book_id_list)
    /\ fut' = Append(fut, [id |-> book_id_list[Len(fut) + 1],
                           state |-> "pending", gets |-> 0,
                           result |-> ReturnedNone])
    /\ UNCHANGED <<env, pc, search_gets, book_id_list, ready,
                   finished_futures, collected, exc, val, ret>>

\* A worker thread takes the oldest work item of the queue and
\* _parse_single_book sends its GET.
WorkerStart(i) ==
    /\ i \in Pending
    /\ \A j \in Pending : i <= j
    /\ PoolHasRoom
    /\ fut' = [fut EXCEPT ![i].state = "running", ![i].gets = @ + 1]
    /\ UNCHANGED <<env, pc, search_gets, book_id_list, ready,
                   finished_futures, collected, exc, val, ret>>

\* The GET of future i ends and _parse_single_book runs to its end: the
\* future gets its result or its exception and tells as_completed's waiter,
\* if that is installed.
WorkerFinish(i) ==
    /\ i \in InFlight
    /\ fut' = [fut EXCEPT ![i].state = "finished",
                          ![i].result = ParseSingleBook(fut[i].id, generic_cover,
                                                        pages[fut[i].id])]
    /\ finished_futures' = IF pc = "collect"
                           THEN Append(finished_futures, i)
                           ELSE finished_futures
    /\ UNCHANGED <<env, pc, search_gets, book_id_list, ready, collected,
                   exc, val, ret>>

\* as_completed(fut) starts: the futures already finished form a set, which
\* it yields first, in no order that the code decides
AsCompleted ==
    /\ pc = "submit"
    /\ Len(fut) = Len(book_id_list)
    /\ ready' = Finished
    /\ pc' = "collect"
    /\ UNCHANGED <<env, search_gets, book_id_list, fut, finished_futures,
                   collected, exc, val, ret>>

\* as_completed yields future i: one of the set found finished at its
\* start, and after those the waiter's list in finishing order
Yields(i) ==
    \/ i \in ready
    \/ ready = {} /\ finished_futures # <<>> /\ i = Head(finished_futures)

\* The comprehension takes future i from as_completed and evaluates
\* "future.result() ... if future.result()": an exception of the future
\* leaves the comprehension (and ends as_completed), None is dropped, a
\* record is kept.
Yield(i) ==
    /\ pc = "collect"
    /\ Yields(i)
    /\ CASE fut[i].result.kind = "raise" ->
                /\ pc' = "unwind"
                /\ exc' = fut[i].result.exc
                /\ ready' = {}
                /\ finished_futures' = <<>>
                /\ UNCHANGED collected
         [] fut[i].result.kind = "None" ->
                /\ ready' = ready \ {i}
                /\ finished_futures' = IF i \in ready THEN finished_futures
                                       ELSE Tail(finished_futures)
                /\ UNCHANGED <<pc, exc, collected>>
         [] OTHER ->
                /\ ready' = ready \ {i}
                /\ finished_futures' = IF i \in ready THEN finished_futures
                                       ELSE Tail(finished_futures)
                /\ collected' = Append(collected, fut[i].result.match)
                /\ UNCHANGED <<pc, exc>>
    /\ UNCHANGED <<env, search_gets, book_id_list, fut, val, ret>>

\* as_completed is exhausted: val = [...], the with block ends (every
\* future has finished, shutdown has nothing to wait for) and return val
SearchReturns ==
    /\ pc = "collect"
    /\ ready = {}
    /\ finished_futures = <<>>
    /\ Finished = 1..Len(fut)
    /\ val' = Bound(collected)
    /\ ret' = ReturnVal(val')
    /\ pc' = "done"
    /\ UNCHANGED <<env, search_gets, book_id_list, fut, ready,
                   finished_futures, collected, exc>>

\* An exception left the comprehension: the with block's __exit__ calls
\* shutdown(wait=True), which joins the workers after they have run every
\* queued work item, and the exception leaves search.
SearchRaises ==
    /\ pc = "unwind"
    /\ Finished = 1..Len(fut)
    /\ ret' = RetRaise(exc)
    /\ pc' = "done"
    /\ UNCHANGED <<env, search_gets, book_id_list, fut, ready,
                   finished_futures, collected, exc, val>>

Next ==
    \/ SearchInactive
    \/ SearchRequestFails
    \/ SearchNoResults
    \/ SearchResults
    \/ Submit
    \/ \E i \in 1..Len(fut) : WorkerStart(i)
    \/ \E i \in 1..Len(fut) : WorkerFinish(i)
    \/ AsCompleted
    \/ \E i \in 1..Len(fut) : Yield(i)
    \/ SearchReturns
    \/ SearchRaises

(***************************************************************************)
(* The environments of a call                                              *)
(***************************************************************************)
\* the longest items list of a search response that is tried in full
MaxItems == 2

\* how many results the endpoint may count beyond those of its first page
MaxMore == 1

\* how far the padded items lists reach past ITEMS_LIMIT
MaxOver == 1

\* how many candidates the pool runs are given beyond max_workers
MaxExtra == 1

Range(f) == {f[i] : i \in DOMAIN f}

SeqsUpTo(S, n) == UNION {[1..k -> S] : k \in 0..n}

\* "sid: 1,"
ItemPlain == <<"s", "i", "d", ":", " ", "1", ",">>

\* "xsid: 23,y"
ItemEmbedded == <<"x", "s", "i", "d", ":", " ", "2", "3", ",", "y">>

\* "sid: 4": no comma after the digits
ItemNoComma == <<"s", "i", "d", ":", " ", "4">>

\* "sid:5,": no blank
ItemNoBlank == <<"s", "i", "d", ":", "5", ",">>

\* "sid: ,sid: 1,": the pattern fails where it first starts
ItemSecond ==
    <<"s", "i", "d", ":", " ", ",", "s", "i", "d", ":", " ", "1", ",">>

\* "book": an entry without any sid
ItemFiller == <<"b", "o", "o", "k">>

ItemTexts == {ItemPlain, ItemEmbedded, ItemNoComma, ItemNoBlank, ItemSecond}

\* an info element and a sibling of one
Element(text, tail, siblings) ==
    [text |-> text, tail |-> tail, siblings |-> siblings]

Sibling(tag, text) == [tag |-> tag, text |-> text]

AuthorsElement ==
    Element(<<"zuo", "zhe">>, <<":">>,
            <<Sibling("a", <<"L", "i", "u">>), Sibling("br", None),
              Sibling("span", <<"chu", "ban", "she", ":">>)>>)

PublisherElement == Element(<<"chu", "ban", "she", ":">>, <<" ", "P", "X">>, <<Sibling("br", None)>>)

IsbnElement == Element(<<"I", "S", "B", "N", ":">>, <<" ", "9", "7">>, <<Sibling("br", None)>>)

SeriesElement ==
    Element(<<"cong", "shu", ":">>, <<" ">>,
            <<Sibling("a", <<"S", "1">>), Sibling("br", None)>>)

\* a detail page with every element in place
GoodPage ==
    [fetch |-> "ok",
     title |-> << <<"T">> >>,
     cover |-> << <<"c">> >>,
     rating |-> << <<" ", "8", ".", "7", " ">> >>,
     tags |-> << <<"t", "1">>, <<"t", "2">> >>,
     description |-> << << <<"o", "l", "d">> >>, << <<"d", "1">>, <<"d", "2">> >> >>,
     info |-> <<AuthorsElement, PublisherElement, IsbnElement>>]

\* session.get raises
ErrorPage == [GoodPage EXCEPT !.fetch = "error"]

\* raise_for_status raises
StatusPage == [GoodPage EXCEPT !.fetch = "status"]

\* no element matches TITTLE_XPATH
NoTitlePage == [GoodPage EXCEPT !.title = <<>>]

\* the publisher label is the last node of its parent: it has no tail
NoTailPage ==
    [GoodPage EXCEPT !.info = <<AuthorsElement,
                                Element(<<"chu", "ban", "she">>, None, <<>>),
                                IsbnElement>>]

\* a page of a book that belongs to a series
SeriesPage ==
    [GoodPage EXCEPT !.info = <<AuthorsElement, SeriesElement, IsbnElement>>]

CorePages ==
    {GoodPage, ErrorPage, StatusPage, NoTitlePage, NoTailPage, SeriesPage}

Outcomes == {"ok", "error", "status"}

\* What the search endpoint may answer with these items: a failure, or a
\* body whose total is 0 or counts the items and up to MaxMore more.
Responses(items) ==
    {[outcome |-> o, total |-> total, items |-> items] :
        o \in Outcomes,
        total \in {0} \cup (Len(items)..(Len(items) + MaxMore))}

\* the calling thread is about to run search: no local is bound
Locals ==
    /\ pc = "call"
    /\ search_gets = 0
    /\ book_id_list = <<>>
    /\ fut = <<>>
    /\ ready = {}
    /\ finished_futures = <<>>
    /\ collected = <<>>
    /\ exc = ""
    /\ val = Unbound
    /\ ret = Running

\* The state in which search is called, for the responses whose items are
\* in itemLists and the detail pages in pageSet.
InitWith(itemLists, pageSet) ==
    /\ active \in BOOLEAN
    /\ generic_cover = <<"g">>
    /\ endpoint \in UNION {Responses(items) : items \in itemLists}
    /\ pages \in [Range(BookIdList(endpoint.items)) -> pageSet]
    /\ Locals

Init == InitWith(SeqsUpTo(ItemTexts, MaxItems), CorePages)

Spec == Init /\ [][Next]_vars

\* a detail page with nothing but the elements _parse_single_book indexes
BarePage ==
    [fetch |-> "ok", title |-> << <<"T">> >>, cover |-> << <<>> >>,
     rating |-> << <<"7">> >>, tags |-> <<>>, description |-> <<>>,
     info |-> <<>>]

\* Long responses: a short list between entries without a sid, placed at
\* the head of the items or so that it lies before, across or past the
\* ITEMS_LIMIT-th entry.
Filler(n) == [i \in 1..n |-> ItemFiller]

LongItemLists ==
    {Filler(a) \o items \o Filler(b) :
        a \in {0} \cup ((ITEMS_LIMIT - MaxItems - 1)..(ITEMS_LIMIT + MaxOver)),
        items \in SeqsUpTo({ItemPlain, ItemEmbedded, ItemNoComma}, MaxItems),
        b \in 0..MaxOver}

InitLong ==
    /\ active \in BOOLEAN
    /\ generic_cover = <<"g">>
    /\ endpoint \in UNION {{[outcome |-> o, total |-> total, items |-> items] :
                                o \in Outcomes, total \in {0, Len(items)}} :
                            items \in LongItemLists}
    /\ pages \in [Range(BookIdList(endpoint.items)) ->
                     {BarePage, [BarePage EXCEPT !.title = <<>>]}]
    /\ Locals

SpecLong == InitLong /\ [][Next]_vars

\* Rating texts.  DigitChar and NatText write a number in decimal.
DigitChar(d) == <<"0", "1", "2", "3", "4", "5", "6", "7", "8", "9">>[d + 1]

RECURSIVE NatText(_)
NatText(n) ==
    IF n < 10 THEN <<DigitChar(n)>>
    ELSE NatText(n \div 10) \o <<DigitChar(n % 10)>>

\* the rating of t tenths as Douban writes it: "8.7"
TenthsText(t) == NatText(t \div 10) \o <<".">> \o <<DigitChar(t % 10)>>

\* the ratings of the 0-10 scale, and a few past its end
Tenths == 0..104

\* texts float() rejects
UnparsableTexts ==
    {<<>>, <<" ">>, <<".">>, <<"-">>, <<"a", "b", "c">>,
     <<"8", ".", "7", ".", "1">>, <<"8", ",", "7">>, <<"-", " ", "3">>}

\* other texts float() accepts
OtherTexts ==
    {<<"n", "a", "n">>, <<"i", "n", "f">>, <<"-", "3", ".", "0">>,
     <<"0">>, <<"-", "0", ".", "0">>, <<"0", ".", "0", "0">>, <<"7">>,
     <<".", "5">>, <<"9", ".">>, <<" ", "4", ".", "0", "\n">>,
     <<"+", "8", ".", "5">>, <<"0", ".", "0", "1">>, <<"1", ".", "9", "9">>,
     <<"2", ".", "0", "1">>, <<"9", ".", "9", "9">>, <<"1", "0">>}

RatingTexts ==
    {TenthsText(t) : t \in Tenths} \cup UnparsableTexts \cup OtherTexts

\* detail pages that differ in what RATING_XPATH finds
RatingPages ==
    {[GoodPage EXCEPT !.rating = <<text>>] : text \in RatingTexts}
    \cup {[GoodPage EXCEPT !.rating = <<>>],
          [GoodPage EXCEPT !.rating = <<None>>],
          [GoodPage EXCEPT !.rating = << <<"4", ".", "0">>, <<"9", ".", "0">> >>]}

InitRating == InitWith(SeqsUpTo({ItemPlain}, 1), RatingPages)

SpecRating == InitRating /\ [][Next]_vars

\* Responses with more candidates than the pool has workers: "sid: 1,",
\* "sid: 2,", ...  One of the detail pages varies.
ItemFor(i) == SID_PREFIX \o NatText(i) \o <<",">>

PoolItemLists ==
    {[i \in 1..n |-> ItemFor(i)] : n \in {0, max_workers + MaxExtra}}

InitPool ==
    /\ active \in BOOLEAN
    /\ generic_cover = <<"g">>
    /\ endpoint \in {[outcome |-> o, total |-> Len(items), items |-> items] :
                        o \in Outcomes, items \in PoolItemLists}
    /\ \E page \in {BarePage, [BarePage EXCEPT !.title = <<>>],
                     [BarePage EXCEPT !.fetch = "error"]} :
          pages = [id \in Range(BookIdList(endpoint.items)) |->
                      IF id = <<"2">> THEN page ELSE BarePage]
    /\ Locals

SpecPool == InitPool /\ [][Next]_vars

(***************************************************************************)
(* The properties                                                           *)
(***************************************************************************)
\* the detail page of the candidate of future i
PageOf(i) == pages[fut[i].id]

\* the ids of the records search returned
ReturnedIds == {ret.value[j].id : j \in 1..Len(ret.value)}

\* search got past the search request: the provider is active, the request
\* succeeded and the body's total is not 0
Dispatching == active /\ endpoint.outcome = "ok" /\ endpoint.total # 0

\* C1: for an active provider whose search request succeeds with a body
\* whose total is 0, search returns an empty sequence (it neither raises
\* nor returns None) and dispatches no detail fetch.
C1_ZeroResultsReturnEmpty ==
    (pc = "done" /\ active /\ endpoint.outcome = "ok" /\ endpoint.total = 0)
        => (ret = RetValue(<<>>) /\ fut = <<>>)

\* C2: when the provider is inactive, search returns None without raising
\* and sends no request, neither the search request nor a detail fetch.
C2_InactiveReturnsNone ==
    (pc = "done" /\ ~active)
        => (ret = RetNone /\ search_gets = 0 /\ fut = <<>>)

\* the candidates whose detail fetch fails at transport level
TransportFailed == {i \in 1..Len(fut) : PageOf(i).fetch # "ok"}

\* the candidates whose fetched detail page has no title element
TitleMissing ==
    {i \in 1..Len(fut) : PageOf(i).fetch = "ok" /\ PageOf(i).title = <<>>}

\* C3: when k of the n dispatched detail fetches fail at transport level,
\* search returns a sequence of exactly n - k records, one for each
\* candidate whose fetch succeeded and none for a failed one; it neither
\* raises nor returns None.  (Stated for the calls in which every fetched
\* page has its title element: a page without one is the case of C4.)
C3_PartialFailure ==
    (pc = "done" /\ Dispatching /\ TitleMissing = {})
        => /\ ret.kind = "value"
           /\ Len(ret.value) = Len(fut) - Cardinality(TransportFailed)
           /\ ReturnedIds = {fut[i].id : i \in (1..Len(fut)) \ TransportFailed}

\* C4: a detail page without a title element makes the detail parser
\* signal failure (None) instead of raising, and search still returns the
\* records of the other candidates.
C4_ParseFailureIsLocal ==
    /\ \A i \in Finished \cap TitleMissing : fut[i].result.kind = "None"
    /\ (pc = "done" /\ TitleMissing # {})
          => /\ ret.kind = "value"
             /\ \A i \in 1..Len(fut) :
                   PageOf(i) = GoodPage => fut[i].id \in ReturnedIds

\* C5: when the provider is active and the search request fails (the GET
\* raises, or the status is no success), search returns None, sends the
\* search request once and dispatches no detail fetch.
C5_SearchFailureReturnsNone ==
    (active /\ endpoint.outcome # "ok")
        => /\ search_gets <= 1
           /\ fut = <<>>
           /\ pc = "done" => (ret = RetNone /\ search_gets = 1)

C5_Witness ==
    /\ pc = "done"
    /\ active
    /\ endpoint.outcome = "status"
    /\ BookIdList(endpoint.items) # <<>>
    /\ ret = RetNone

\* "sid: <digits>," occurs in item at p, its digits ending at e
SidAt(item, p, e) ==
    /\ MatchAt(item, SID_PREFIX, p)
    /\ e >= p + Len(SID_PREFIX)
    /\ \A q \in (p + Len(SID_PREFIX))..e : item[q] \in Digits
    /\ e + 1 <= Len(item)
    /\ item[e + 1] = ","

\* the digits of the occurrences of "sid: <digits>," in item
SidsOf(item) ==
    UNION {{SubSeq(item, p + Len(SID_PREFIX), e) :
               e \in {x \in p..Len(item) : SidAt(item, p, x)}} :
           p \in {x \in 1..Len(item) : MatchAt(item, SID_PREFIX, x)}}

\* the entries considered, min(10, items.length) of them, that contain
\* the pattern
Considered ==
    {k \in 1..Len(endpoint.items) : k <= 10 /\ SidsOf(endpoint.items[k]) # {}}

\* the j-th member of a set of entry positions, in entry order
Nth(S, j) == CHOOSE k \in S : Cardinality({m \in S : m <= k}) = j

\* C6: for a response with total > 0, search submits one detail-parser
\* invocation for each of the first min(10, items.length) entries that
\* contains "sid: <digits>,", in entry order and with the digits as id;
\* the other entries, and every entry past the tenth, get none.
C6_CandidatesFromFirstTen ==
    LET considered == Considered
    IN  /\ Len(fut) <= Cardinality(considered)
        /\ \A j \in 1..Len(fut) :
              /\ fut[j].id \in SidsOf(endpoint.items[Nth(considered, j)])
              /\ fut[j].gets <= 1
        /\ (Dispatching /\ pc \in {"collect", "unwind", "done"})
              => Len(fut) = Cardinality(considered)
        /\ (Dispatching /\ pc = "done")
              => \A j \in 1..Len(fut) : fut[j].gets = 1

C6_Witness ==
    /\ pc = "done"
    /\ Len(endpoint.items) > 10
    /\ SidsOf(endpoint.items[11]) # {}
    /\ SidsOf(endpoint.items[10]) # {}
    /\ \E k \in 1..9 : SidsOf(endpoint.items[k]) = {}
    /\ Len(fut) = 1
    /\ ret.kind = "value"
    /\ Len(ret.value) = 1

\* Rating texts with the number each writes, in hundredths: the decimals
\* of the scale and other spellings float() accepts.
Written ==
    {<<TenthsText(t), 10 * t>> : t \in 0..100}
    \cup {<< <<"0">>, 0 >>, << <<"-", "0", ".", "0">>, 0 >>,
          << <<"0", ".", "0", "0">>, 0 >>,
          << <<"7">>, 700 >>, << <<".", "5">>, 50 >>, << <<"9", ".">>, 900 >>,
          << <<" ", "4", ".", "0", "\n">>, 400 >>,
          << <<"+", "8", ".", "5">>, 850 >>,
          << <<"0", ".", "0", "1">>, 1 >>, << <<"1", ".", "9", "9">>, 199 >>,
          << <<"2", ".", "0", "1">>, 201 >>, << <<"9", ".", "9", "9">>, 999 >>,
          << <<"1", "0">>, 1000 >>}

C8_PoolOfFive ==
    /\ Cardinality(InFlight) <= 5
    /\ \A i \in 1..Len(fut) :
          fut[i].gets = IF fut[i].state = "pending" THEN 0 ELSE 1
    /\ pc = "done"
          => /\ Len(fut) = Len(book_id_list)
             /\ \A i \in 1..Len(fut) : fut[i].state = "finished"

C8_Witness ==
    /\ Cardinality(InFlight) = 5
    /\ Pending # {}
    /\ Len(fut) > 5

\* The rule the specification gives a label: the first that matches, in the
\* order authors, publisher, subtitle, published-date, series, identifiers.
LabelRule(text) ==
    CASE Search(AUTHORS_PATTERN, text) -> "authors"
      [] Search(PUBLISHER_PATTERN, text) -> "publisher"
      [] Search(SUBTITLE_PATTERN, text) -> "subtitle"
      [] Search(PUBLISHED_DATE_PATTERN, text) -> "publishedDate"
      [] Search(SERIES_PATTERN, text) -> "series"
      [] Search(IDENTIFIERS_PATTERN, text) -> "identifiers"
      [] OTHER -> "none"

\* the series nodes of the page of future i that have a next sibling
SeriesNodes(i) ==
    {k \in 1..Len(PageOf(i).info) :
        /\ PageOf(i).info[k].text # None
        /\ LabelRule(PageOf(i).info[k].text) = "series"
        /\ PageOf(i).info[k].siblings # <<>>}

Max(S) == CHOOSE x \in S : \A y \in S : x >= y

\* C9: a node whose label matches the series pattern, and none of the
\* patterns before it, sets the record's series to the text of its next
\* sibling.
C9_SeriesFromNextSibling ==
    \A i \in Finished :
        (fut[i].result.kind = "record" /\ SeriesNodes(i) # {})
        => fut[i].result.match.series =
               Head(PageOf(i).info[Max(SeriesNodes(i))].siblings).text

\* a node whose field cannot be extracted: no label text, or a label whose
\* rule reads the tail or the next sibling that the node lacks
Misses(element) ==
    \/ element.text = None
    \/ /\ LabelRule(element.text)
            \in {"publisher", "subtitle", "publishedDate", "identifiers"}
       /\ element.tail = None
    \/ /\ LabelRule(element.text) = "series"
       /\ element.siblings = <<>>

\* the page without the nodes whose field cannot be extracted
WithoutMisses(page) ==
    [page EXCEPT !.info = SelectSeq(page.info, LAMBDA element : ~Misses(element))]

\* the candidates whose page differs from a page that yields a record only
\* by such nodes
FieldMisses ==
    {i \in 1..Len(fut) :
        /\ \E k \in 1..Len(PageOf(i).info) : Misses(PageOf(i).info[k])
        /\ ParseSingleBook(fut[i].id, generic_cover,
                           WithoutMisses(PageOf(i))).kind = "record"}

\* C10: a label node that lacks its tail, its next sibling or its text
\* only loses its own field: the detail parser returns the record with
\* every other field as usual, and search does not fail.
C10_FieldMissIsSkipped ==
    /\ \A i \in Finished \cap FieldMisses :
          fut[i].result = ParseSingleBook(fut[i].id, generic_cover,
                                          WithoutMisses(PageOf(i)))
    /\ (pc = "done" /\ FieldMisses # {} /\ TitleMissing = {})
          => ret.kind = "value"

====
